---- MODULE Spec2Model ----
(***************************************************************************)
(* rollup-plugin-size-history (src/src/index.ts): the plugin factory       *)
(* sizeHistory, its generateBundle hook, and the store file they read and  *)
(* write.                                                                  *)
(*                                                                         *)
(* A plugin instance holds three references made once, by the factory:     *)
(* the parsed history array, previousSnapshot and currentSnapshot.  The    *)
(* snapshots are JavaScript objects, so the model keeps the history array  *)
(* and the object created as newSnapshot apart and records, for each of    *)
(* the two references, which object it points at.                          *)
(***************************************************************************)
EXTENDS Integers, Sequences, FiniteSets, TLC

(* ------------------------------ bounds --------------------------------- *)

\* Longest history held by a store file before the first build.
MaxHist == 2

\* Number of plugin operations (factory calls and generateBundle calls).
MaxSteps == 4

(* ------------------------------ inputs --------------------------------- *)

Names == {"a.js", "b.js"}

Ids == {"r1", "r2"}

\* Artifact contents: sequences of characters, "a" an ASCII letter and
\* "smiley" a character outside the Basic Multilingual Plane.
Codes == {<<"a">>, <<"smiley">>}

DefaultPath == "size.history.json"

CustomPath == "size.json"

Paths == {DefaultPath, CustomPath}

Inst == {1, 2}

(* ---------------------------- measurement ------------------------------ *)

Utf8Width(ch) == IF ch = "a" THEN 1 ELSE 4

RECURSIVE OriginalSize(_)
OriginalSize(code) ==
  IF code = <<>> THEN 0 ELSE Utf8Width(Head(code)) + OriginalSize(Tail(code))

\* zlib is a collaborator: a deterministic function of the content.  For the
\* short contents used here the gzip container adds its header and trailer.
GzipSize(code) == OriginalSize(code) + 20

BrotliSize(code) == OriginalSize(code) + 4

NewSizes(name, code) ==
  [name |-> name, original |-> OriginalSize(code),
   gzip |-> GzipSize(code), brotli |-> BrotliSize(code)]

(* ------------------------------ the store ------------------------------ *)

\* A file is absent, or holds a text.  A text is modelled by what JSON.parse
\* makes of it: "garbage" does not parse, "object" is the text {}, "array"
\* is an array of snapshots, each serialised as <<id, sizes>> with every size
\* serialised as <<name, original, gzip, brotli>>.
Absent == [kind |-> "absent", items |-> <<>>]

Garbage == [kind |-> "garbage", items |-> <<>>]

ObjectText == [kind |-> "object", items |-> <<>>]

EmptyArrayText == [kind |-> "array", items |-> <<>>]

StringifySize(s) == <<s.name, s.original, s.gzip, s.brotli>>

StringifySnapshot(snap) ==
  <<snap.id, [j \in 1..Len(snap.sizes) |-> StringifySize(snap.sizes[j])]>>

JSONStringify(history) ==
  [kind |-> "array",
   items |-> [k \in 1..Len(history) |-> StringifySnapshot(history[k])]]

ParseSize(t) ==
  [name |-> t[1], original |-> t[2], gzip |-> t[3], brotli |-> t[4]]

ParseSnapshot(t) ==
  [id |-> t[1], sizes |-> [j \in 1..Len(t[2]) |-> ParseSize(t[2][j])]]

JSONParse(file) == [k \in 1..Len(file.items) |-> ParseSnapshot(file.items[k])]

\* ensureFile as it would be if it wrote the default value whether or not the
\* file exists.
EnsureFileDiskAlwaysWrites(d, path, defaultValue) ==
  [d EXCEPT ![path] = defaultValue]

\* ensureFile: the text returned, and the disk it leaves.
EnsureFileText(d, path, defaultValue) ==
  IF d[path].kind # "absent" THEN d[path] ELSE defaultValue

EnsureFileDisk(d, path, defaultValue) ==
  IF d[path].kind # "absent" THEN d ELSE [d EXCEPT ![path] = defaultValue]

\* parseFile: throws on a text JSON.parse rejects, else returns the value.
ParseFileThrows(file) == file.kind = "garbage"

\* writeHistory as it would be if, like ensureFile, it left an existing file
\* alone.
WriteHistoryOnlyCreates(d, path, history) ==
  IF d[path].kind # "absent" THEN d
                             ELSE [d EXCEPT ![path] = JSONStringify(history)]

WriteHistory(d, path, history) == [d EXCEPT ![path] = JSONStringify(history)]

(* ------------------------------ resolver ------------------------------- *)

\* A reference to a snapshot object: an element of the history array, the
\* object created as newSnapshot, or undefined.
RefHist(k) == [kind |-> "hist", idx |-> k]

RefNew == [kind |-> "new", idx |-> 0]

RefUndefined == [kind |-> "undefined", idx |-> 0]

EmptySnapshot(id) == [id |-> id, sizes |-> <<>>]

\* getSnapshots as it would be if it pushed newSnapshot whatever the id of
\* the last element is.
GetSnapshotsAlwaysPushes(history, id) ==
  [history |-> Append(history, EmptySnapshot(id)),
   newSnapshot |-> EmptySnapshot(id),
   previous |-> IF Len(history) = 0 THEN RefHist(1)
                                    ELSE RefHist(Len(history)),
   current |-> RefHist(Len(history) + 1)]

\* getSnapshots as it would be if, for a last element of the current id, it
\* returned that element as previous too.
GetSnapshotsPreviousIsLast(history, id) ==
  IF Len(history) = 0
    THEN [history |-> <<EmptySnapshot(id)>>, newSnapshot |-> EmptySnapshot(id),
          previous |-> RefHist(1), current |-> RefHist(1)]
    ELSE IF history[Len(history)].id = id
      THEN [history |-> history, newSnapshot |-> EmptySnapshot(id),
            previous |-> RefHist(Len(history)),
            current |-> RefHist(Len(history))]
      ELSE [history |-> history, newSnapshot |-> EmptySnapshot(id),
            previous |-> RefHist(Len(history)), current |-> RefNew]

\* getSnapshots: the history array after the call, the object newSnapshot,
\* and the pair [previous, current] returned.
GetSnapshots(history, id) ==
  IF Len(history) = 0
    THEN [history |-> <<EmptySnapshot(id)>>, newSnapshot |-> EmptySnapshot(id),
          previous |-> RefHist(1), current |-> RefHist(1)]
    ELSE IF history[Len(history)].id = id
      THEN [history |-> history, newSnapshot |-> EmptySnapshot(id),
            previous |-> IF Len(history) >= 2 THEN RefHist(Len(history) - 1)
                                               ELSE RefUndefined,
            current |-> RefHist(Len(history))]
      ELSE [history |-> history, newSnapshot |-> EmptySnapshot(id),
            previous |-> RefHist(Len(history)), current |-> RefNew]

(* ------------------------------- mutator ------------------------------- *)

\* Array.prototype.findIndex, 1-based; 0 when no element matches.
FindIndex(sizes, name) ==
  IF \E j \in 1..Len(sizes) : sizes[j].name = name
    THEN CHOOSE j \in 1..Len(sizes) :
           /\ sizes[j].name = name
           /\ \A l \in 1..(j - 1) : sizes[l].name # name
    ELSE 0

\* addSize as it would be without the test of `overwrite`.
AddSizeIgnoresOverwrite(snapshot, size, overwrite) ==
  LET index == FindIndex(snapshot.sizes, size.name) IN
  IF index > 0
    THEN [threw |-> FALSE,
          snapshot |-> [snapshot EXCEPT !.sizes[index] = size]]
    ELSE [threw |-> FALSE,
          snapshot |-> [snapshot EXCEPT !.sizes = Append(@, size)]]

\* addSize as it would be if it replaced an entry by removing it and pushing
\* the new one.
AddSizeReinserts(snapshot, size, overwrite) ==
  LET index == FindIndex(snapshot.sizes, size.name)
      others == SelectSeq(snapshot.sizes, LAMBDA s : s.name # size.name)
  IN
  IF index > 0 /\ ~overwrite
    THEN [threw |-> TRUE, snapshot |-> snapshot]
    ELSE [threw |-> FALSE,
          snapshot |-> [snapshot EXCEPT !.sizes = Append(others, size)]]

\* addSize as it would be if an allowed overwrite pushed the new entry and
\* left the old one in the array.
AddSizeAlwaysPushes(snapshot, size, overwrite) ==
  LET index == FindIndex(snapshot.sizes, size.name) IN
  IF index > 0 /\ ~overwrite
    THEN [threw |-> TRUE, snapshot |-> snapshot]
    ELSE [threw |-> FALSE,
          snapshot |-> [snapshot EXCEPT !.sizes = Append(@, size)]]

\* addSize as it would be if it stored the new entry before testing
\* `overwrite`.
AddSizeStoresBeforeThrow(snapshot, size, overwrite) ==
  LET index == FindIndex(snapshot.sizes, size.name) IN
  IF index > 0
    THEN [threw |-> ~overwrite,
          snapshot |-> [snapshot EXCEPT !.sizes[index] = size]]
    ELSE [threw |-> FALSE,
          snapshot |-> [snapshot EXCEPT !.sizes = Append(@, size)]]

\* addSize: whether it throws, and the snapshot after the call.
AddSize(snapshot, size, overwrite) ==
  LET index == FindIndex(snapshot.sizes, size.name) IN
  IF index > 0
    THEN IF ~overwrite
           THEN [threw |-> TRUE, snapshot |-> snapshot]
           ELSE [threw |-> FALSE,
                 snapshot |-> [snapshot EXCEPT !.sizes[index] = size]]
    ELSE [threw |-> FALSE,
          snapshot |-> [snapshot EXCEPT !.sizes = Append(@, size)]]

(* ----------------------------- diff engine ----------------------------- *)

\* The optional field `new` of a Size: "true", or "undefined" when absent.
NewOf(s) == IF "new" \in DOMAIN s THEN s.new ELSE "undefined"

\* createDiff as it would be with the operands of the subtraction swapped.
CreateDiffReversed(oldValues, newValues) ==
  [name |-> oldValues.name, new |-> NewOf(oldValues),
   original |-> oldValues.original - newValues.original,
   gzip |-> oldValues.gzip - newValues.gzip,
   brotli |-> oldValues.brotli - newValues.brotli]

CreateDiff(oldValues, newValues) ==
  [name |-> oldValues.name, new |-> NewOf(oldValues),
   original |-> newValues.original - oldValues.original,
   gzip |-> newValues.gzip - oldValues.gzip,
   brotli |-> newValues.brotli - oldValues.brotli]

\* compareSnapshot as it would be if its default baseline carried no flag.
CompareSnapshotUnflagged(defined, snap, newValues) ==
  LET index == IF defined THEN FindIndex(snap.sizes, newValues.name) ELSE 0
      oldValues ==
        IF index > 0
          THEN snap.sizes[index]
          ELSE [name |-> newValues.name, original |-> 0, gzip |-> 0,
                brotli |-> 0]
  IN [name |-> oldValues.name, new |-> NewOf(oldValues),
      original |-> newValues.original - oldValues.original,
      gzip |-> newValues.gzip - oldValues.gzip,
      brotli |-> newValues.brotli - oldValues.brotli]

\* compareSnapshot: `defined` is FALSE when snap is undefined.
CompareSnapshot(defined, snap, newValues) ==
  LET index == IF defined THEN FindIndex(snap.sizes, newValues.name) ELSE 0
      oldValues ==
        IF index > 0
          THEN snap.sizes[index]
          ELSE [name |-> newValues.name, original |-> 0, gzip |-> 0,
                brotli |-> 0, new |-> "true"]
  IN CreateDiff(oldValues, newValues)

(* ------------------------------- state --------------------------------- *)

VARIABLES
  disk,    \* the file system: path -> file
  opts,    \* the options of rollup.config.js: path, write, overwrite
  inst,    \* the plugin instances: what the factory's closure holds
  ev,      \* what the last operation did and showed
  steps    \* operations so far

vars == <<disk, opts, inst, ev, steps>>

NoSize == [name |-> "", original |-> 0, gzip |-> 0, brotli |-> 0]

NoDiff == [name |-> "", new |-> "undefined", original |-> 0, gzip |-> 0,
           brotli |-> 0]

NoInst ==
  [status |-> "none", id |-> "", history |-> <<>>,
   newSnapshot |-> EmptySnapshot(""), previous |-> RefUndefined,
   current |-> RefUndefined, writes |-> 0]

NoEvent ==
  [op |-> "none", i |-> 0, outcome |-> "ok", id |-> "", size |-> NoSize,
   diff |-> NoDiff, printed |-> FALSE, warned |-> FALSE, wrote |-> {}]

\* The object a reference of instance record p points at.
Deref(p, ref) ==
  IF ref.kind = "hist" THEN p.history[ref.idx] ELSE p.newSnapshot

\* Instance record p after the object behind `ref` has become `snap`.
Assign(p, ref, snap) ==
  IF ref.kind = "hist"
    THEN [p EXCEPT !.history[ref.idx] = snap]
    ELSE [p EXCEPT !.newSnapshot = snap]

(* --------------------------- initial stores ---------------------------- *)

InitSizes ==
  {<<>>} \cup {<<NewSizes(n, c)>> : n \in Names, c \in Codes}

InitSnapshots == {[id |-> id, sizes |-> s] : id \in Ids, s \in InitSizes}

\* Histories of a store written over earlier revisions: consecutive
\* snapshots belong to different revisions.
InitHistories ==
  {h \in UNION {[1..k -> InitSnapshots] : k \in 0..MaxHist} :
     \A k \in 1..(Len(h) - 1) : h[k].id # h[k + 1].id}

InitFiles ==
  {Absent, Garbage, ObjectText} \cup {JSONStringify(h) : h \in InitHistories}

Init ==
  /\ \E path \in Paths, write \in BOOLEAN, overwrite \in BOOLEAN :
       opts = [path |-> path, write |-> write, overwrite |-> overwrite]
  /\ \E f \in InitFiles :
       disk = [p \in Paths |-> IF p = opts.path THEN f ELSE Absent]
  /\ inst = [i \in Inst |-> NoInst]
  /\ ev = NoEvent
  /\ steps = 0

(* ------------------------------ actions -------------------------------- *)

\* sizeHistory(options): one build starts and the factory runs.
SizeHistory(i, id) ==
  LET file == EnsureFileText(disk, opts.path, EmptyArrayText)
      disk1 == EnsureFileDisk(disk, opts.path, EmptyArrayText)
      wrote == IF disk[opts.path].kind = "absent" THEN {opts.path} ELSE {}
      failed(outcome) ==
        /\ inst' = [inst EXCEPT ![i] = NoInst]
        /\ ev' = [NoEvent EXCEPT !.op = "sizeHistory", !.i = i, !.id = id,
                                 !.outcome = outcome, !.wrote = wrote]
  IN
  /\ steps < MaxSteps
  /\ steps' = steps + 1
  /\ disk' = disk1
  /\ UNCHANGED opts
  /\ IF ParseFileThrows(file)
       THEN failed("CorruptStoreError")
       ELSE IF file.kind # "array"
         \* history.push is not a function
         THEN failed("TypeError")
         ELSE LET r == GetSnapshots(JSONParse(file), id) IN
              /\ inst' = [inst EXCEPT ![i] =
                   [status |-> "ready", id |-> id, history |-> r.history,
                    newSnapshot |-> r.newSnapshot, previous |-> r.previous,
                    current |-> r.current, writes |-> 0]]
              /\ ev' = [NoEvent EXCEPT !.op = "sizeHistory", !.i = i,
                                       !.id = id, !.wrote = wrote]

\* generateBundle(options, bundle) of instance i, for one artifact.
GenerateBundle(i, name, code) ==
  LET p == inst[i]
      newSizes == NewSizes(name, code)
      added == AddSize(Deref(p, p.current), newSizes, opts.overwrite)
      p1 == Assign(p, p.current, added.snapshot)
      diff == CompareSnapshot(p1.previous.kind # "undefined",
                              Deref(p1, p1.previous), newSizes)
  IN
  /\ p.status = "ready"
  /\ steps < MaxSteps
  /\ steps' = steps + 1
  /\ UNCHANGED opts
  /\ IF added.threw
       THEN /\ disk' = disk
            /\ inst' = [inst EXCEPT ![i] = p1]
            /\ ev' = [NoEvent EXCEPT !.op = "generateBundle", !.i = i,
                                     !.id = p.id, !.size = newSizes,
                                     !.outcome = "DuplicateMeasurementError"]
       ELSE /\ disk' = IF opts.write
                         THEN WriteHistory(disk, DefaultPath, p1.history)
                         ELSE disk
            /\ inst' = [inst EXCEPT ![i] =
                 [p1 EXCEPT !.writes = IF opts.write THEN @ + 1 ELSE @]]
            /\ ev' = [op |-> "generateBundle", i |-> i, outcome |-> "ok",
                      id |-> p.id, size |-> newSizes, diff |-> diff,
                      printed |-> TRUE, warned |-> ~opts.write,
                      wrote |-> IF opts.write THEN {DefaultPath} ELSE {}]

Build(i) == \E id \in Ids : SizeHistory(i, id)

Artifact(i) == \E name \in Names, code \in Codes : GenerateBundle(i, name, code)

Next == Build(1) \/ Artifact(1)

Spec == Init /\ [][Next]_vars

(* ------------------- two configurations in one run --------------------- *)

\* A configuration file exporting two configurations, each with its own
\* size() plugin on the default store file, write enabled.
InitTwo ==
  /\ \E overwrite \in BOOLEAN :
       opts = [path |-> DefaultPath, write |-> TRUE, overwrite |-> overwrite]
  /\ \E f \in InitFiles :
       disk = [p \in Paths |-> IF p = opts.path THEN f ELSE Absent]
  /\ inst = [i \in Inst |-> NoInst]
  /\ ev = NoEvent
  /\ steps = 0

\* The configuration file is evaluated before any build runs: both factories
\* run, one after the other, at the same revision.
BuildTwo(i) ==
  /\ inst[i].status = "none"
  /\ \A j \in Inst : j < i => inst[j].status = "ready"
  /\ \E id \in Ids :
       /\ \A j \in Inst : j < i => inst[j].id = id
       /\ SizeHistory(i, id)

\* The builds then run, their generateBundle steps in any order.
ArtifactTwo(i) ==
  /\ \A j \in Inst : inst[j].status = "ready"
  /\ Artifact(i)

NextTwo == \E i \in Inst : BuildTwo(i) \/ ArtifactTwo(i)

SpecTwo == InitTwo /\ [][NextTwo]_vars

(* ------------------------- reading the state --------------------------- *)

\* The history held by the store file the options name.
StoreHistory == JSONParse(disk[opts.path])

StoreIsArray == disk[opts.path].kind = "array"

\* The snapshot objects the instance of the last operation refers to.
Current == Deref(inst[ev.i], inst[ev.i].current)

Previous == Deref(inst[ev.i], inst[ev.i].previous)

PreviousDefined == inst[ev.i].previous.kind # "undefined"

Generated == ev.op = "generateBundle" /\ ev.outcome = "ok"

Resolved == ev.op = "sizeHistory" /\ ev.outcome = "ok"

HasName(sizes, name) == \E j \in 1..Len(sizes) : sizes[j].name = name

(* ------------------------------- claims -------------------------------- *)

\* C1: resolving a non-empty History against a revision id that differs
\* from the id of its last element appends one new empty Snapshot with that
\* id (the History grows by one, its last element is `current`) and returns
\* the former last element as `previous`.
C1_ResolveAppendsNewRevision ==
  [][(/\ ev'.op = "sizeHistory"
      /\ StoreIsArray
      /\ Len(StoreHistory) > 0
      /\ StoreHistory[Len(StoreHistory)].id # ev'.id)
     => LET q == inst'[ev'.i] IN
        /\ ev'.outcome = "ok"
        /\ q.history = Append(StoreHistory, EmptySnapshot(ev'.id))
        /\ q.current = RefHist(Len(q.history))
        /\ q.previous = RefHist(Len(StoreHistory))]_vars

\* C2: after a generateBundle step that succeeds with write enabled, the
\* last Snapshot of the persisted History has the current revision id and
\* contains the measurement just recorded.  Stated for the default path,
\* where the file read and the file written are the same file.
C2_PersistedTailHoldsMeasurement ==
  (Generated /\ opts.write /\ opts.path = DefaultPath)
  => /\ StoreIsArray
     /\ Len(StoreHistory) > 0
     /\ StoreHistory[Len(StoreHistory)].id = ev.id
     /\ \E j \in 1..Len(StoreHistory[Len(StoreHistory)].sizes) :
          StoreHistory[Len(StoreHistory)].sizes[j] = ev.size

\* C3: over write-enabled builds the persisted History grows by one Snapshot
\* for each revision that is not the revision of its tail, and a step at the
\* revision of the tail changes that tail only.  Stated for the default path.
C3_OneSnapshotPerRevision ==
  [][(/\ ev'.op = "generateBundle"
      /\ ev'.outcome = "ok"
      /\ opts.write
      /\ opts.path = DefaultPath
      /\ StoreIsArray)
     => LET before == StoreHistory
            after == JSONParse(disk'[opts.path])
            n == Len(before)
        IN IF n > 0 /\ before[n].id = ev'.id
             THEN /\ Len(after) = n
                  /\ \A k \in 1..(n - 1) : after[k] = before[k]
                  /\ after[n].id = ev'.id
             ELSE /\ Len(after) = n + 1
                  /\ \A k \in 1..n : after[k] = before[k]
                  /\ after[n + 1].id = ev'.id]_vars

\* C4: on an empty store every artifact is reported as new with deltas equal
\* to its measured values, and after the first artifact the History is the
\* single Snapshot of the revision holding that one measurement.
C4_EmptyStoreReportsNew ==
  (Generated /\ inst[ev.i].previous = inst[ev.i].current)
  => /\ ev.diff.new = "true"
     /\ ev.diff.original = ev.size.original
     /\ ev.diff.gzip = ev.size.gzip
     /\ ev.diff.brotli = ev.size.brotli
     /\ Len(Current.sizes) = 1
          => inst[ev.i].history = <<[id |-> ev.id, sizes |-> <<ev.size>>]>>

\* C5: recording a measurement without overwrite into a snapshot that holds
\* an entry of the same artifact name fails with the duplicate-measurement
\* error and leaves the sizes of the snapshot as they were.
C5_DuplicateWithoutOverwriteFails ==
  [][(/\ ev'.op = "generateBundle"
      /\ ~opts.overwrite
      /\ HasName(Deref(inst[ev'.i], inst[ev'.i].current).sizes, ev'.size.name))
     => /\ ev'.outcome = "DuplicateMeasurementError"
        /\ Deref(inst'[ev'.i], inst'[ev'.i].current).sizes
             = Deref(inst[ev'.i], inst[ev'.i].current).sizes]_vars

\* A build re-run at the revision and for the artifact the store holds
\* fails on its first artifact.
C5_Witness ==
  /\ ev.op = "generateBundle"
  /\ ev.outcome = "DuplicateMeasurementError"
  /\ steps = 2
  /\ HasName(Current.sizes, ev.size.name)

\* C6: recording a measurement with overwrite into a snapshot that holds an
\* entry of the same artifact name replaces that entry where it stands: the
\* sizes keep their length and every other entry keeps its place.
C6_OverwriteReplacesInPlace ==
  [][(/\ ev'.op = "generateBundle"
      /\ opts.overwrite
      /\ HasName(Deref(inst[ev'.i], inst[ev'.i].current).sizes, ev'.size.name))
     => LET old == Deref(inst[ev'.i], inst[ev'.i].current).sizes
            new == Deref(inst'[ev'.i], inst'[ev'.i].current).sizes
        IN /\ ev'.outcome = "ok"
           /\ Len(new) = Len(old)
           /\ \A j \in 1..Len(old) :
                new[j] = IF old[j].name = ev'.size.name THEN ev'.size
                                                         ELSE old[j]]_vars

\* The first of two entries has just been replaced by a measurement.
C6_Witness ==
  /\ Generated
  /\ opts.overwrite
  /\ Len(Current.sizes) = 2
  /\ Current.sizes[1] = ev.size

\* C7: resolving a History whose last element has the current revision id
\* leaves the History as it is and returns that last element as `current`;
\* resolving the same store again returns the same snapshot.
C7_ResolveSameRevisionKeepsHistory ==
  [][(/\ ev'.op = "sizeHistory"
      /\ StoreIsArray
      /\ Len(StoreHistory) > 0
      /\ StoreHistory[Len(StoreHistory)].id = ev'.id)
     => LET q == inst'[ev'.i] IN
        /\ ev'.outcome = "ok"
        /\ q.history = StoreHistory
        /\ q.current = RefHist(Len(StoreHistory))
        /\ Deref(q, q.current) = StoreHistory[Len(StoreHistory)]
        /\ disk' = disk
        /\ (Resolved /\ ev.id = ev'.id /\ ev.i = ev'.i
              /\ inst[ev.i].previous # inst[ev.i].current)
             => /\ q.current = inst[ev.i].current
                /\ Deref(q, q.current) = Current]_vars

\* The factory has run twice and found the revision of the tail.
C7_Witness ==
  /\ Resolved
  /\ steps = 2
  /\ inst[ev.i].current = RefHist(Len(inst[ev.i].history))
  /\ inst[ev.i].previous # inst[ev.i].current
  /\ Current.id = ev.id
  /\ Len(Current.sizes) > 0

\* C8: a measurement diffed against a missing previous snapshot is reported
\* as new, with deltas equal to its own values.
C8_NoPreviousIsNew ==
  (Generated /\ ~PreviousDefined)
  => ev.diff = [name |-> ev.size.name, new |-> "true",
                original |-> ev.size.original, gzip |-> ev.size.gzip,
                brotli |-> ev.size.brotli]

C8_Witness == Generated /\ ~PreviousDefined /\ ev.size.original > 0

C10_WriteDisabledLeavesDisk ==
  [][~opts.write
     => /\ disk' = disk
        /\ ev'.op = "generateBundle" => ev'.outcome = "ok" /\ ev'.warned]_vars

\* C11: the History is read from and persisted to the file the `path`
\* option names: after a write-enabled step that file holds the updated
\* History and no other file has been written.
C11_PersistedAtOptionPath ==
  (Generated /\ opts.write)
  => /\ ev.wrote = {opts.path}
     /\ disk[opts.path] = JSONStringify(inst[ev.i].history)
     /\ \A p \in Paths \ {opts.path} : disk[p] = Absent

\* C12: a store file whose text is not a serialized History (text that does
\* not parse, or that parses to something other than an array) makes the
\* factory fail with the corrupt-store error and keeps its content.
C12_InvalidStoreIsCorruptError ==
  [][(/\ ev'.op = "sizeHistory"
      /\ disk[opts.path].kind \in {"garbage", "object"})
     => /\ ev'.outcome = "CorruptStoreError"
        /\ disk' = disk
        /\ inst'[ev'.i].status = "none"]_vars

UniqueNames(snap) ==
  \A j, l \in 1..Len(snap.sizes) :
    snap.sizes[j].name = snap.sizes[l].name => j = l

\* C13: the stores loaded hold snapshots with unique artifact names, and
\* after any sequence of steps every snapshot an instance holds and every
\* snapshot persisted still has unique artifact names.
C13_NamesStayUnique ==
  /\ \A i \in Inst :
       /\ \A k \in 1..Len(inst[i].history) : UniqueNames(inst[i].history[k])
       /\ UniqueNames(inst[i].newSnapshot)
  /\ \A p \in Paths :
       disk[p].kind = "array"
         => \A k \in 1..Len(JSONParse(disk[p])) :
              UniqueNames(JSONParse(disk[p])[k])

\* An entry of a snapshot of two entries has been overwritten and persisted.
C13_Witness ==
  /\ Generated
  /\ opts.overwrite
  /\ opts.write
  /\ Len(Current.sizes) = 2
  /\ Current.sizes[1] = ev.size
  /\ disk[DefaultPath] = JSONStringify(inst[ev.i].history)

\* C14 as claimed: with write enabled the store file is written at most
\* once per build, however many artifacts the build generates.
C14_AtMostOneWritePerBuild == \A i \in Inst : inst[i].writes <= 1

\* C14 as amended: with write enabled every generateBundle step that
\* succeeds writes the whole History of its instance to the store file once,
\* so a build writes once per artifact generated; a step that fails, and any
\* step with write disabled, writes nothing.
C14_OneWritePerArtifact ==
  [][ev'.op = "generateBundle"
     => LET i == ev'.i IN
        IF ev'.outcome = "ok" /\ opts.write
          THEN /\ inst'[i].writes = inst[i].writes + 1
               /\ Cardinality(ev'.wrote) = 1
               /\ \A p \in ev'.wrote :
                    disk'[p] = JSONStringify(inst'[i].history)
               /\ \A p \in Paths \ ev'.wrote : disk'[p] = disk[p]
          ELSE /\ inst'[i].writes = inst[i].writes
               /\ ev'.wrote = {}
               /\ disk' = disk]_vars

\* One build has written the store file for its second artifact.
C14_Witness ==
  /\ Generated
  /\ inst[ev.i].writes = 2
  /\ Len(Current.sizes) = 2
  /\ disk[DefaultPath] = JSONStringify(inst[ev.i].history)

\* C15: when the last element of the History has the current revision id,
\* `previous` is the second-to-last element if there is one; with a single
\* element there is no previous snapshot, and every artifact of the build is
\* diffed against the zero baseline.
C15_PreviousIsSecondToLast ==
  [][/\ (/\ ev'.op = "sizeHistory"
         /\ StoreIsArray
         /\ Len(StoreHistory) > 0
         /\ StoreHistory[Len(StoreHistory)].id = ev'.id)
        => LET q == inst'[ev'.i]
               n == Len(StoreHistory)
           IN IF n >= 2
                THEN /\ q.previous = RefHist(n - 1)
                     /\ Deref(q, q.previous) = StoreHistory[n - 1]
                ELSE q.previous = RefUndefined
     /\ (/\ ev'.op = "generateBundle"
         /\ ev'.outcome = "ok"
         /\ Len(inst[ev'.i].history) = 1
         /\ inst[ev'.i].current = RefHist(1)
         /\ inst[ev'.i].previous # inst[ev'.i].current)
        => ev'.diff = [name |-> ev'.size.name, new |-> "true",
                       original |-> ev'.size.original,
                       gzip |-> ev'.size.gzip,
                       brotli |-> ev'.size.brotli]]_vars

\* An artifact the second-to-last snapshot holds has been diffed against it
\* in a build at the revision of the last snapshot.
C15_Witness ==
  /\ Generated
  /\ Len(inst[ev.i].history) = 2
  /\ inst[ev.i].current = RefHist(2)
  /\ inst[ev.i].previous = RefHist(1)
  /\ HasName(Previous.sizes, ev.size.name)
  /\ ev.diff.new = "undefined"

\* C16: the factory creates a missing store file with the text of the empty
\* array and starts from the empty History; it never writes to a store file
\* that exists.
C16_LoadCreatesMissingStore ==
  [][ev'.op = "sizeHistory"
     => IF disk[opts.path].kind = "absent"
          THEN /\ disk' = [disk EXCEPT ![opts.path] = EmptyArrayText]
               /\ JSONParse(disk'[opts.path]) = <<>>
               /\ ev'.outcome = "ok"
               /\ inst'[ev'.i].history = <<EmptySnapshot(ev'.id)>>
          ELSE disk' = disk]_vars

\* The factory has created the store file.
C16_Witness ==
  /\ Resolved
  /\ ev.wrote = {opts.path}
  /\ disk[opts.path] = EmptyArrayText
  /\ inst[ev.i].history = <<EmptySnapshot(ev.id)>>

\* C17: a generateBundle step changes the sizes of the current snapshot
\* only: the History keeps its length and order, every other snapshot keeps
\* its id and sizes, and so does the snapshot resolved as `previous`, the
\* baseline of the diff.
C17_StepChangesCurrentOnly ==
  [][ev'.op = "generateBundle"
     => LET p == inst[ev'.i]
            q == inst'[ev'.i]
        IN /\ Len(q.history) = Len(p.history)
           /\ \A k \in 1..Len(p.history) :
                /\ q.history[k].id = p.history[k].id
                /\ RefHist(k) # p.current => q.history[k] = p.history[k]
           /\ q.current = p.current
           /\ q.previous = p.previous
           /\ Deref(q, q.current).id = Deref(p, p.current).id
           /\ p.previous.kind # "undefined"
                => Deref(q, q.previous) = Deref(p, p.previous)]_vars

\* C18: a generateBundle step that fails with the duplicate-measurement
\* error prints no result line, writes no file and leaves the History the
\* instance holds as it was.
C18_DuplicateAbortsStep ==
  [][(ev'.op = "generateBundle"
        /\ ev'.outcome = "DuplicateMeasurementError")
     => /\ ~ev'.printed
        /\ ~ev'.warned
        /\ ev'.wrote = {}
        /\ disk' = disk
        /\ inst' = inst]_vars

\* The second artifact of a write-enabled build has the name of the first.
C18_Witness ==
  /\ ev.op = "generateBundle"
  /\ ev.outcome = "DuplicateMeasurementError"
  /\ opts.write
  /\ inst[ev.i].writes = 1
  /\ HasName(Current.sizes, ev.size.name)
  /\ disk[DefaultPath] = JSONStringify(inst[ev.i].history)

\* The artifact names the instance i holds in its current snapshot.
Measured(i) ==
  {Deref(inst[i], inst[i].current).sizes[j].name :
     j \in 1..Len(Deref(inst[i], inst[i].current).sizes)}

\* The artifact names persisted for revision id.
Persisted(id) ==
  IF disk[DefaultPath].kind # "array" THEN {}
  ELSE LET h == JSONParse(disk[DefaultPath]) IN
       UNION {{h[k].sizes[j].name : j \in 1..Len(h[k].sizes)} :
                k \in {l \in 1..Len(h) : h[l].id = id}}

\* Both instances hold their current snapshot in their History and have
\* written the store file.
BothWrote ==
  /\ \A i \in Inst : inst[i].status = "ready" /\ inst[i].writes >= 1
  /\ \A i \in Inst : inst[i].current.kind = "hist"

\* C19 as claimed: when two instances constructed against the same store
\* before either persists have both completed generateBundle steps, the
\* persisted History holds the measurements of both.
C19_NoLostUpdate ==
  BothWrote => \A i \in Inst : Measured(i) \subseteq Persisted(inst[i].id)

\* C19 as amended: the store file holds the History of the instance whose
\* generateBundle step succeeded last, whatever the other instance holds.
C19_LastWriterWins ==
  Generated
  => /\ JSONParse(disk[DefaultPath]) = inst[ev.i].history
     /\ \A p \in Paths \ {DefaultPath} : disk[p] = Absent

\* Both instances have written, and the measurement of the one that wrote
\* first is no longer in the store file.
C19_Witness ==
  /\ Generated
  /\ BothWrote
  /\ Measured(ev.i) \subseteq Persisted(ev.id)
  /\ \E j \in Inst \ {ev.i} : ~(Measured(j) \subseteq Persisted(ev.id))

====
